---- MODULE Spec2Model ----
(***************************************************************************)
(* V-gram extraction, the exact q-gram statistics aggregate and the GIN    *)
(* support functions of the vgram extension.                               *)
(*                                                                         *)
(* Strings are sequences of byte values (ASCII codes).  Words and LIKE     *)
(* fragments only ever hold bytes accepted by isExtractable (ASCII letters *)
(* and digits under the C ctype tables) and the sentinel, so every         *)
(* character the walker steps over is one byte long (pg_mblen = 1).        *)
(* Memory is a function from byte offsets to byte values; a 32-bit int is  *)
(* stored little-endian in four consecutive bytes.                         *)
(***************************************************************************)
EXTENDS Integers, Sequences, FiniteSets, TLC

(***************************************************************************)
(* Bounds of the explored inputs.                                          *)
(***************************************************************************)
MaxStrLen == 3
MaxPatLen == 3
MaxVGrams == 2
MaxDocs == 3
MaxDocLen == 2
MaxKeys == 2

(***************************************************************************)
(* Program constants.                                                      *)
(***************************************************************************)
EMPTY_CHARACTER == 36
LikeStrategyNumber == 3
ILikeStrategyNumber == 4
MinQLimit == 1
MaxQLimit == 10
DefaultQ == 2
GIN_FALSE == 0
GIN_TRUE == 1
GIN_MAYBE == 2
GIN_SEARCH_MODE_DEFAULT == 0
GIN_SEARCH_MODE_ALL == 2
SizeofInt == 4

(***************************************************************************)
(* Input alphabets (byte values): 'a' 'B' ' ' for table values, the same   *)
(* plus '%' '_' '\' for LIKE patterns.                                     *)
(***************************************************************************)
TextAlphabet == {97, 66, 32}
PatternAlphabet == {97, 66, 32, 37, 95, 92}

RECURSIVE SeqsUpTo(_, _)
SeqsUpTo(S, n) ==
  IF n = 0 THEN {<<>>}
  ELSE LET shorter == SeqsUpTo(S, n - 1)
       IN  shorter \cup {Append(s, c) : s \in {t \in shorter : Len(t) = n - 1}, c \in S}

Texts == SeqsUpTo(TextAlphabet, MaxStrLen)
Patterns == SeqsUpTo(PatternAlphabet, MaxPatLen)

(* candidate elements of the vgrams option: "a" "aa" "ab" "$a" *)
VGramPool == {<<97>>, <<97, 97>>, <<97, 98>>, <<36, 97>>}

RECURSIVE ArraysUpTo(_, _)
ArraysUpTo(S, n) ==
  IF n = 0 THEN {<<>>}
  ELSE LET shorter == ArraysUpTo(S, n - 1)
       IN  shorter \cup
           {Append(s, g) : s \in {t \in shorter : Len(t) = n - 1}, g \in S}

NoRepeat(arr) == \A i, j \in DOMAIN arr : i # j => arr[i] # arr[j]
VGramArrays == {arr \in ArraysUpTo(VGramPool, MaxVGrams) : NoRepeat(arr)}

(***************************************************************************)
(* Character classes and byte-string primitives.                           *)
(***************************************************************************)
isExtractable(c) == (c \in 65..90) \/ (c \in 97..122) \/ (c \in 48..57)

ISESCAPECHAR(c) == c = 92
ISWILDCARDCHAR(c) == c = 95 \/ c = 37

str_tolower(s) == [i \in DOMAIN s |-> IF s[i] \in 65..90 THEN s[i] + 32 ELSE s[i]]

Min(a, b) == IF a < b THEN a ELSE b

(* memcmp over the first n bytes of two byte strings: sign of the result *)
RECURSIVE memcmpFrom(_, _, _, _)
memcmpFrom(a, b, i, n) ==
  IF i > n THEN 0
  ELSE IF a[i] < b[i] THEN -1
  ELSE IF a[i] > b[i] THEN 1
  ELSE memcmpFrom(a, b, i + 1, n)

vgram_cmp_internal(d1, d2) ==
  LET len1 == Len(d1)
      len2 == Len(d2)
      cmp == memcmpFrom(d1, d2, 1, Min(len1, len2))
  IN  IF cmp # 0 THEN cmp
      ELSE IF len1 < len2 THEN -1
      ELSE IF len1 = len2 THEN 0
      ELSE 1

vgram_sort_cmp(v1, v2) == vgram_cmp_internal(v1, v2)

(* qsort(elems, n, ..., vgram_sort_cmp): the ascending arrangement *)
RECURSIVE InsertSorted(_, _)
InsertSorted(sorted, x) ==
  IF sorted = <<>> THEN <<x>>
  ELSE IF vgram_sort_cmp(x, Head(sorted)) <= 0 THEN <<x>> \o sorted
  ELSE <<Head(sorted)>> \o InsertSorted(Tail(sorted), x)

RECURSIVE qsort(_)
qsort(elems) ==
  IF elems = <<>> THEN <<>>
  ELSE InsertSorted(qsort(Tail(elems)), Head(elems))

(***************************************************************************)
(* Memory holding the packed table of frequent grams.  A pointer is either *)
(* NULL or a block of bytes addressed from offset 0; palloc(n, fill) gives *)
(* n bytes whose prior contents are fill, and the block also carries the   *)
(* byte at offset n, the first one past the allocation.                    *)
(***************************************************************************)
NullPtr == [null |-> TRUE, mem |-> <<>>]

palloc(n, fill) == [null |-> FALSE, mem |-> [k \in 0..n |-> fill]]

StoreInt(mem, at, v) ==
  [k \in DOMAIN mem |->
     IF k = at THEN v % 256
     ELSE IF k = at + 1 THEN (v \div 256) % 256
     ELSE IF k = at + 2 THEN (v \div 65536) % 256
     ELSE IF k = at + 3 THEN (v \div 16777216) % 256
     ELSE mem[k]]

LoadInt(mem, at) ==
  mem[at] + 256 * mem[at + 1] + 65536 * mem[at + 2] + 16777216 * mem[at + 3]

memcpy(mem, at, bytes) ==
  [k \in DOMAIN mem |->
     IF k >= at /\ k < at + Len(bytes) THEN bytes[k - at + 1] ELSE mem[k]]

StoreByte(mem, at, v) == [k \in DOMAIN mem |-> IF k = at THEN v ELSE mem[k]]

(* the loop body of vgrams_fill for element i (0-based) at running size *)
RECURSIVE vgrams_fill_loop(_, _, _, _)
vgrams_fill_loop(elems, i, size, p) ==
  IF i >= Len(elems) THEN [size |-> size, p |-> p]
  ELSE LET vgram == elems[i + 1]
           vgramSize == Len(vgram)
           m1 == StoreInt(p.mem, (i + 1) * SizeofInt, size)
           m2 == memcpy(m1, size, vgram)
           m3 == StoreByte(m2, size + vgramSize + 1, 0)
           p1 == IF p.null THEN p ELSE [p EXCEPT !.mem = m3]
       IN  vgrams_fill_loop(elems, i + 1, size + vgramSize + 1, p1)

(* vgrams_fill packing the elements in the order of the array *)
vgrams_fill_arrayOrder(arr, ptr) ==
  LET elems == arr
      nVgrams == Len(elems)
      size0 == SizeofInt + nVgrams * SizeofInt
      p0 == IF ptr.null THEN ptr
            ELSE [ptr EXCEPT !.mem = StoreInt(ptr.mem, 0, nVgrams)]
  IN  vgrams_fill_loop(elems, 0, size0, p0)

(* vgrams_fill(arr, ptr): the size of the packed table and, when ptr is   *)
(* not NULL, the memory after packing                                     *)
vgrams_fill(arr, ptr) ==
  LET elems == qsort(arr)
      nVgrams == Len(elems)
      size0 == SizeofInt + nVgrams * SizeofInt
      p0 == IF ptr.null THEN ptr
            ELSE [ptr EXCEPT !.mem = StoreInt(ptr.mem, 0, nVgrams)]
  IN  vgrams_fill_loop(elems, 0, size0, p0)

(* VGramOptions: vgramsCount and everything behind it live in opts.mem at *)
(* offset 0 (the offsets stored by vgrams_fill are relative to it)        *)
vgramsCount(opts) == LoadInt(opts.mem, 0)

GET_VGRAM(opts, i) == LoadInt(opts.mem, (i + 1) * SizeofInt)

(* strncmp(mem + at, prefix, len): prefix holds len non-NUL bytes *)
RECURSIVE strncmpFrom(_, _, _, _, _)
strncmpFrom(mem, at, prefix, k, len) ==
  IF k > len THEN 0
  ELSE LET c1 == mem[at + k - 1]
           c2 == prefix[k]
       IN  IF c1 < c2 THEN -1
           ELSE IF c1 > c2 THEN 1
           ELSE IF c1 = 0 THEN 0
           ELSE strncmpFrom(mem, at, prefix, k + 1, len)

strncmp(mem, at, prefix, len) == strncmpFrom(mem, at, prefix, 1, len)

RECURSIVE prefixQGramSearch(_, _, _, _, _)
prefixQGramSearch(options, prefix, len, lower, upper) ==
  IF lower <= upper
  THEN LET mid == (lower + upper) \div 2
           cmp == strncmp(options.mem, GET_VGRAM(options, mid), prefix, len)
       IN  IF cmp < 0
           THEN prefixQGramSearch(options, prefix, len, mid + 1, upper)
           ELSE IF cmp > 0
           THEN prefixQGramSearch(options, prefix, len, lower, mid - 1)
           ELSE [idx |-> mid, lower |-> lower, upper |-> upper]
  ELSE [idx |-> -1, lower |-> lower, upper |-> upper]

(***************************************************************************)
(* extractMinimalVGramsWord.  Positions p, r, prevP, prevR are offsets     *)
(* from wordStart; a NULL prevP/prevR is -1.  The result is the sequence   *)
(* of grams handed to the callback.                                        *)
(***************************************************************************)
Bytes(word, from, to) == SubSeq(word, from + 1, to)

(* walkInner with the loop condition len <= maxQ *)
RECURSIVE walkInner_lenLeMaxQ(_, _, _, _, _, _, _, _)
walkInner_lenLeMaxQ(word, options, p, r, len, lower, upper, first_time) ==
  IF first_time \/ (len <= options.maxQ /\ r < Len(word))
  THEN LET adv == (~first_time) \/ r <= p
           r1 == IF adv THEN r + 1 ELSE r
           len1 == IF adv THEN len + 1 ELSE len
       IN  IF len1 >= options.minQ
           THEN LET res == prefixQGramSearch(options, Bytes(word, p, r1),
                                             r1 - p, lower, upper)
                IN  IF res.idx < 0
                    THEN [r |-> r1, len |-> len1, found |-> TRUE]
                    ELSE walkInner_lenLeMaxQ(word, options, p, r1, len1,
                                             res.lower, res.upper, FALSE)
           ELSE walkInner_lenLeMaxQ(word, options, p, r1, len1, lower, upper, FALSE)
  ELSE [r |-> r, len |-> len, found |-> FALSE]

(* the inner while loop for one start position p *)
RECURSIVE walkInner(_, _, _, _, _, _, _, _)
walkInner(word, options, p, r, len, lower, upper, first_time) ==
  IF first_time \/ (len < options.maxQ /\ r < Len(word))
  THEN LET adv == (~first_time) \/ r <= p
           r1 == IF adv THEN r + 1 ELSE r
           len1 == IF adv THEN len + 1 ELSE len
       IN  IF len1 >= options.minQ
           THEN LET res == prefixQGramSearch(options, Bytes(word, p, r1),
                                             r1 - p, lower, upper)
                IN  IF res.idx < 0
                    THEN [r |-> r1, len |-> len1, found |-> TRUE]
                    ELSE walkInner(word, options, p, r1, len1,
                                   res.lower, res.upper, FALSE)
           ELSE walkInner(word, options, p, r1, len1, lower, upper, FALSE)
  ELSE [r |-> r, len |-> len, found |-> FALSE]

(* walkOuter with the comparison of prevR and r turned around *)
RECURSIVE walkOuter_prevRGreater(_, _, _, _, _, _, _, _)
walkOuter_prevRGreater(word, options, p, r, len, prevP, prevR, out) ==
  IF p < Len(word)
  THEN LET in == walkInner(word, options, p, r, len,
                           0, vgramsCount(options) - 1, TRUE)
           emit == in.found /\ prevR >= 0 /\ prevP >= 0 /\ prevR > in.r
           out1 == IF emit THEN Append(out, Bytes(word, prevP, prevR)) ELSE out
           prevP1 == IF in.found THEN p ELSE prevP
           prevR1 == IF in.found THEN in.r ELSE prevR
       IN  walkOuter_prevRGreater(word, options, p + 1, in.r, in.len - 1,
                                  prevP1, prevR1, out1)
  ELSE IF prevR >= 0 /\ prevP >= 0
       THEN Append(out, Bytes(word, prevP, prevR))
       ELSE out

(* walkOuter emitting the previous candidate whenever a new one is found *)
RECURSIVE walkOuter_emitEvery(_, _, _, _, _, _, _, _)
walkOuter_emitEvery(word, options, p, r, len, prevP, prevR, out) ==
  IF p < Len(word)
  THEN LET in == walkInner(word, options, p, r, len,
                           0, vgramsCount(options) - 1, TRUE)
           emit == in.found /\ prevR >= 0 /\ prevP >= 0
           out1 == IF emit THEN Append(out, Bytes(word, prevP, prevR)) ELSE out
           prevP1 == IF in.found THEN p ELSE prevP
           prevR1 == IF in.found THEN in.r ELSE prevR
       IN  walkOuter_emitEvery(word, options, p + 1, in.r, in.len - 1,
                               prevP1, prevR1, out1)
  ELSE IF prevR >= 0 /\ prevP >= 0
       THEN Append(out, Bytes(word, prevP, prevR))
       ELSE out

(* walkOuter without the flush of the last candidate after the loop *)
RECURSIVE walkOuter_noFinalFlush(_, _, _, _, _, _, _, _)
walkOuter_noFinalFlush(word, options, p, r, len, prevP, prevR, out) ==
  IF p < Len(word)
  THEN LET in == walkInner(word, options, p, r, len,
                           0, vgramsCount(options) - 1, TRUE)
           emit == in.found /\ prevR >= 0 /\ prevP >= 0 /\ prevR < in.r
           out1 == IF emit THEN Append(out, Bytes(word, prevP, prevR)) ELSE out
           prevP1 == IF in.found THEN p ELSE prevP
           prevR1 == IF in.found THEN in.r ELSE prevR
       IN  walkOuter_noFinalFlush(word, options, p + 1, in.r, in.len - 1,
                                  prevP1, prevR1, out1)
  ELSE out

(* the outer while loop and the final flush *)
RECURSIVE walkOuter(_, _, _, _, _, _, _, _)
walkOuter(word, options, p, r, len, prevP, prevR, out) ==
  IF p < Len(word)
  THEN LET in == walkInner(word, options, p, r, len,
                           0, vgramsCount(options) - 1, TRUE)
           emit == in.found /\ prevR >= 0 /\ prevP >= 0 /\ prevR < in.r
           out1 == IF emit THEN Append(out, Bytes(word, prevP, prevR)) ELSE out
           prevP1 == IF in.found THEN p ELSE prevP
           prevR1 == IF in.found THEN in.r ELSE prevR
       IN  walkOuter(word, options, p + 1, in.r, in.len - 1, prevP1, prevR1, out1)
  ELSE IF prevR >= 0 /\ prevP >= 0
       THEN Append(out, Bytes(word, prevP, prevR))
       ELSE out

extractMinimalVGramsWord(word, options) ==
  walkOuter(word, options, 0, 0, 0, -1, -1, <<>>)

(***************************************************************************)
(* extractWords: the sequence of buffers passed to the callback, one per   *)
(* maximal run of extractable characters, lowercased and wrapped in        *)
(* EMPTY_CHARACTER.  firstExtractable = -1 stands for NULL.                *)
(***************************************************************************)
(* the buffer filled with the run as it stands in the string *)
WordBuf_notLowered(string, from, to) ==
  <<EMPTY_CHARACTER>> \o Bytes(string, from, to) \o <<EMPTY_CHARACTER>>

WordBuf(string, from, to) ==
  <<EMPTY_CHARACTER>> \o str_tolower(Bytes(string, from, to)) \o <<EMPTY_CHARACTER>>

RECURSIVE extractWordsFrom(_, _, _, _)
extractWordsFrom(string, p, firstExtractable, calls) ==
  IF p < Len(string)
  THEN IF isExtractable(string[p + 1])
       THEN extractWordsFrom(string, p + 1,
                             IF firstExtractable < 0 THEN p ELSE firstExtractable,
                             calls)
       ELSE IF firstExtractable >= 0
            THEN extractWordsFrom(string, p + 1, -1,
                                  Append(calls, WordBuf(string, firstExtractable, p)))
            ELSE extractWordsFrom(string, p + 1, -1, calls)
  ELSE IF firstExtractable >= 0
       THEN Append(calls, WordBuf(string, firstExtractable, p))
       ELSE calls

extractWords(string) == extractWordsFrom(string, 0, -1, <<>>)

RECURSIVE Concat(_)
Concat(ss) == IF ss = <<>> THEN <<>> ELSE Head(ss) \o Concat(Tail(ss))

(* extractWords(..., extractMinimalVGramsWord, ...) with a collecting callback *)
extractVGrams(string, options) ==
  LET words == extractWords(string)
  IN  Concat([i \in DOMAIN words |-> extractMinimalVGramsWord(words[i], options)])

(***************************************************************************)
(* makeOptions and get_vgrams.  makeOptions pallocs the options without    *)
(* clearing them: fill is what the bytes held before.                      *)
(***************************************************************************)
makeOptions(minQ, maxQ, vgrams, fill) ==
  LET size == vgrams_fill(vgrams, NullPtr).size
      filled == vgrams_fill(vgrams, palloc(size, fill))
  IN  [minQ |-> minQ, maxQ |-> maxQ, size |-> size, mem |-> filled.p.mem]

(* number of Datum slots get_vgrams allocates for its result before extraction *)
vgramsCapacity(s, minQ, maxQ) == Len(s) * (maxQ - minQ + 1)

get_vgrams(s, minQ, maxQ, vgrams, fill) ==
  extractVGrams(s, makeOptions(minQ, maxQ, vgrams, fill))

(***************************************************************************)
(* get_wildcard_part.  str is the whole pattern, from the offset at which  *)
(* this call starts; positions are offsets into the pattern.               *)
(***************************************************************************)
(* first loop: find the first word character *)
RECURSIVE findBeginWord(_, _, _, _)
findBeginWord(str, beginword, in_escape, in_wildcard_meta) ==
  IF beginword < Len(str)
  THEN LET c == str[beginword + 1]
       IN  IF in_escape
           THEN IF isExtractable(c)
                THEN [beginword |-> beginword, in_wildcard_meta |-> FALSE]
                ELSE findBeginWord(str, beginword + 1, FALSE, FALSE)
           ELSE IF ISESCAPECHAR(c)
                THEN findBeginWord(str, beginword + 1, TRUE, in_wildcard_meta)
           ELSE IF ISWILDCARDCHAR(c)
                THEN findBeginWord(str, beginword + 1, FALSE, TRUE)
           ELSE IF isExtractable(c)
                THEN [beginword |-> beginword, in_wildcard_meta |-> in_wildcard_meta]
           ELSE findBeginWord(str, beginword + 1, FALSE, FALSE)
  ELSE [beginword |-> beginword, in_wildcard_meta |-> in_wildcard_meta]

(* the second loop leaving out the right padding when the string ends     *)
(* inside an escape                                                        *)
RECURSIVE copyWord_openEscapeUnpadded(_, _, _, _, _)
copyWord_openEscapeUnpadded(str, endword, buf, in_escape, in_wildcard_meta) ==
  IF endword < Len(str)
  THEN LET c == str[endword + 1]
       IN  IF in_escape
           THEN IF isExtractable(c)
                THEN copyWord_openEscapeUnpadded(str, endword + 1, Append(buf, c), FALSE, FALSE)
                ELSE [endword |-> endword, buf |-> buf, in_wildcard_meta |-> FALSE]
           ELSE IF ISESCAPECHAR(c)
                THEN copyWord_openEscapeUnpadded(str, endword + 1, buf, TRUE, in_wildcard_meta)
           ELSE IF ISWILDCARDCHAR(c)
                THEN [endword |-> endword, buf |-> buf, in_wildcard_meta |-> TRUE]
           ELSE IF isExtractable(c)
                THEN copyWord_openEscapeUnpadded(str, endword + 1, Append(buf, c), FALSE,
                                                 in_wildcard_meta)
           ELSE [endword |-> endword, buf |-> buf, in_wildcard_meta |-> FALSE]
  ELSE [endword |-> endword, buf |-> buf, in_wildcard_meta |-> in_wildcard_meta \/ in_escape]

(* second loop: copy the word into buf, stripping escapes *)
RECURSIVE copyWord(_, _, _, _, _)
copyWord(str, endword, buf, in_escape, in_wildcard_meta) ==
  IF endword < Len(str)
  THEN LET c == str[endword + 1]
       IN  IF in_escape
           THEN IF isExtractable(c)
                THEN copyWord(str, endword + 1, Append(buf, c), FALSE, FALSE)
                ELSE [endword |-> endword, buf |-> buf, in_wildcard_meta |-> FALSE]
           ELSE IF ISESCAPECHAR(c)
                THEN copyWord(str, endword + 1, buf, TRUE, in_wildcard_meta)
           ELSE IF ISWILDCARDCHAR(c)
                THEN [endword |-> endword, buf |-> buf, in_wildcard_meta |-> TRUE]
           ELSE IF isExtractable(c)
                THEN copyWord(str, endword + 1, Append(buf, c), FALSE, in_wildcard_meta)
           ELSE [endword |-> endword, buf |-> buf, in_wildcard_meta |-> FALSE]
  ELSE [endword |-> endword, buf |-> buf, in_wildcard_meta |-> in_wildcard_meta]

get_wildcard_part(str, from) ==
  LET b == findBeginWord(str, from, FALSE, FALSE)
  IN  IF b.beginword >= Len(str)
      THEN [null |-> TRUE, endword |-> Len(str), buf |-> <<>>, charlen |-> 0]
      ELSE LET left == IF ~b.in_wildcard_meta THEN <<EMPTY_CHARACTER>> ELSE <<>>
               w == copyWord(str, b.beginword, left, FALSE, FALSE)
               buf == IF ~w.in_wildcard_meta
                      THEN Append(w.buf, EMPTY_CHARACTER) ELSE w.buf
           IN  [null |-> FALSE, endword |-> w.endword, buf |-> buf,
                charlen |-> Len(buf)]

(* the fragments returned by the successive calls of the loop of           *)
(* extractQueryLike, each resuming at the position the last one returned   *)
RECURSIVE wildcardParts(_, _)
wildcardParts(pattern, eword) ==
  LET part == get_wildcard_part(pattern, eword)
  IN  IF part.null THEN <<>>
      ELSE <<part.buf>> \o wildcardParts(pattern, part.endword)

(* extractQueryLike: the grams collected over all fragments of the pattern *)
RECURSIVE extractQueryLikeFrom(_, _, _, _)
extractQueryLikeFrom(options, pattern, eword, vgrams) ==
  LET part == get_wildcard_part(pattern, eword)
  IN  IF part.null THEN vgrams
      ELSE LET buf2 == str_tolower(part.buf)
           IN  extractQueryLikeFrom(options, pattern, part.endword,
                   vgrams \o extractMinimalVGramsWord(buf2, options))

extractQueryLike(options, pattern) == extractQueryLikeFrom(options, pattern, 0, <<>>)

(***************************************************************************)
(* GIN support functions.                                                  *)
(***************************************************************************)
(* the loop of entries_unique over the sorted array, i from 1, j from 0 *)
RECURSIVE uniqueLoop(_, _, _)
uniqueLoop(entries, i, j) ==
  IF i < Len(entries)
  THEN IF vgram_cmp_internal(entries[i + 1], entries[j + 1]) # 0
       THEN uniqueLoop([entries EXCEPT ![j + 2] = entries[i + 1]], i + 1, j + 1)
       ELSE uniqueLoop(entries, i + 1, j)
  ELSE SubSeq(entries, 1, j + 1)

(* entries_unique without the qsort call *)
entries_unique_noSort(entries) ==
  IF Len(entries) = 0 THEN entries
  ELSE uniqueLoop(entries, 1, 0)

entries_unique(entries) ==
  IF Len(entries) = 0 THEN entries
  ELSE uniqueLoop(qsort(entries), 1, 0)

vgram_gin_extract_value(s, options) == entries_unique(extractVGrams(s, options))

(* vgram_gin_extract_query without the nentries == 0 branch *)
vgram_gin_extract_query_noScanAll(val, strategy, searchMode, options) ==
  IF strategy = ILikeStrategyNumber \/ strategy = LikeStrategyNumber
  THEN LET emitted == extractQueryLike(options, val)
           entries == entries_unique(emitted)
       IN  [error |-> FALSE, emitted |-> emitted, entries |-> entries,
            searchMode |-> searchMode]
  ELSE [error |-> TRUE, emitted |-> <<>>, entries |-> <<>>, searchMode |-> searchMode]

vgram_gin_extract_query(val, strategy, searchMode, options) ==
  IF strategy = ILikeStrategyNumber \/ strategy = LikeStrategyNumber
  THEN LET emitted == extractQueryLike(options, val)
           entries == entries_unique(emitted)
       IN  [error |-> FALSE, emitted |-> emitted, entries |-> entries,
            searchMode |-> IF Len(entries) = 0 THEN GIN_SEARCH_MODE_ALL
                           ELSE searchMode]
  ELSE [error |-> TRUE, emitted |-> <<>>, entries |-> <<>>, searchMode |-> searchMode]

vgram_gin_consistent(check, strategy) ==
  IF strategy = ILikeStrategyNumber \/ strategy = LikeStrategyNumber
  THEN [error |-> FALSE, recheck |-> TRUE,
        res |-> \A i \in DOMAIN check : check[i]]
  ELSE [error |-> TRUE, recheck |-> TRUE, res |-> FALSE]

(* vgram_gin_triconsistent answering GIN_TRUE when no key is missing or unknown *)
vgram_gin_triconsistent_answersTrue(check, strategy) ==
  IF strategy = ILikeStrategyNumber \/ strategy = LikeStrategyNumber
  THEN [error |-> FALSE,
        res |-> IF \E i \in DOMAIN check : check[i] = GIN_FALSE
                THEN GIN_FALSE
                ELSE IF \A i \in DOMAIN check : check[i] = GIN_TRUE
                THEN GIN_TRUE ELSE GIN_MAYBE]
  ELSE [error |-> TRUE, res |-> GIN_FALSE]

vgram_gin_triconsistent(check, strategy) ==
  IF strategy = ILikeStrategyNumber \/ strategy = LikeStrategyNumber
  THEN [error |-> FALSE,
        res |-> IF \E i \in DOMAIN check : check[i] = GIN_FALSE
                THEN GIN_FALSE ELSE GIN_MAYBE]
  ELSE [error |-> TRUE, res |-> GIN_FALSE]

(* vgram_gin_options: the int options are range-checked by the registered *)
(* bounds, vgrams_validator only parses the array, and the options block  *)
(* handed to vgrams_fill_string is zero-filled                            *)
vgrams_validator(value) == TRUE

vgram_gin_options(minQ, maxQ, vgrams) ==
  IF minQ >= MinQLimit /\ minQ <= MaxQLimit /\ maxQ >= MinQLimit /\ maxQ <= MaxQLimit
     /\ vgrams_validator(vgrams)
  THEN LET size == vgrams_fill(vgrams, NullPtr).size
           filled == vgrams_fill(vgrams, palloc(size, 0))
       IN  [error |-> FALSE, minQ |-> minQ, maxQ |-> maxQ, size |-> size,
            mem |-> filled.p.mem]
  ELSE [error |-> TRUE, minQ |-> minQ, maxQ |-> maxQ, size |-> 0, mem |-> <<>>]

(***************************************************************************)
(* vgram_text_like / vgram_text_iclike hand over to the host's LIKE and    *)
(* ILIKE: '%' matches any run, '_' any one character, '\' quotes the next  *)
(* character, and a pattern ending in a lone '\' raises an error.          *)
(***************************************************************************)
RECURSIVE MatchText(_, _, _, _)
MatchText(t, ti, pat, pi) ==
  IF pi > Len(pat) THEN ti > Len(t)
  ELSE LET c == pat[pi]
       IN  IF c = 92
           THEN pi + 1 <= Len(pat) /\ ti <= Len(t) /\ t[ti] = pat[pi + 1]
                /\ MatchText(t, ti + 1, pat, pi + 2)
           ELSE IF c = 37
           THEN \E k \in ti..(Len(t) + 1) : MatchText(t, k, pat, pi + 1)
           ELSE IF c = 95
           THEN ti <= Len(t) /\ MatchText(t, ti + 1, pat, pi + 1)
           ELSE ti <= Len(t) /\ t[ti] = c /\ MatchText(t, ti + 1, pat, pi + 1)

RECURSIVE WellFormedPattern(_, _)
WellFormedPattern(pat, pi) ==
  IF pi > Len(pat) THEN TRUE
  ELSE IF pat[pi] = 92 THEN pi + 1 <= Len(pat) /\ WellFormedPattern(pat, pi + 2)
  ELSE WellFormedPattern(pat, pi + 1)

vgram_text_like(t, pat) == WellFormedPattern(pat, 1) /\ MatchText(t, 1, pat, 1)

vgram_text_iclike(t, pat) ==
  WellFormedPattern(pat, 1) /\ MatchText(str_tolower(t), 1, str_tolower(pat), 1)

(***************************************************************************)
(* The exact statistics aggregate.  QGramStatState holds the hash table    *)
(* qgramsHash as a function from the stored grams to their entries, and    *)
(* the list incrementedQGrams.  A threshold is a fraction num/den.         *)
(***************************************************************************)
NullState == [null |-> TRUE, minQ |-> 0, maxQ |-> 0, threshold |-> [num |-> 0, den |-> 1],
              totalCount |-> 0, qgramsCount |-> 0, bCurrent |-> 0,
              qgramsHash |-> <<>>, incrementedQGrams |-> <<>>]

(* addQGramToHash counting every occurrence *)
addQGramToHash_everyOccurrence(qgram, state) ==
  LET h == state.qgramsHash
      found == qgram \in DOMAIN h
      value == IF ~found
               THEN [count |-> 1, delta |-> state.bCurrent - 1, incremented |-> TRUE]
               ELSE [h[qgram] EXCEPT !.count = @ + 1, !.incremented = TRUE]
      touched == (~found) \/ ~h[qgram].incremented
  IN  [state EXCEPT
         !.qgramsHash = [g \in DOMAIN h \cup {qgram} |-> IF g = qgram THEN value ELSE h[g]],
         !.incrementedQGrams = IF touched THEN Append(@, qgram) ELSE @,
         !.qgramsCount = @ + 1]

addQGramToHash(qgram, state) ==
  LET h == state.qgramsHash
      found == qgram \in DOMAIN h
      value == IF ~found
               THEN [count |-> 1, delta |-> state.bCurrent - 1, incremented |-> TRUE]
               ELSE IF ~h[qgram].incremented
               THEN [h[qgram] EXCEPT !.count = @ + 1, !.incremented = TRUE]
               ELSE [h[qgram] EXCEPT !.incremented = TRUE]
      touched == (~found) \/ ~h[qgram].incremented
  IN  [state EXCEPT
         !.qgramsHash = [g \in DOMAIN h \cup {qgram} |-> IF g = qgram THEN value ELSE h[g]],
         !.incrementedQGrams = IF touched THEN Append(@, qgram) ELSE @,
         !.qgramsCount = @ + 1]

(* the do-while loop of collectStatsWord for one q *)
RECURSIVE collectStatsLoop(_, _, _, _, _, _)
collectStatsLoop(word, q, pos, p, r, state) ==
  LET pos1 == pos + 1
      p1 == p + 1
      hit == pos1 >= q
      state1 == IF hit THEN addQGramToHash(Bytes(word, r, p1), state) ELSE state
      r1 == IF hit THEN r + 1 ELSE r
  IN  IF p1 < Len(word)
      THEN collectStatsLoop(word, q, pos1, p1, r1, state1)
      ELSE state1

RECURSIVE collectStatsFromQ(_, _, _)
collectStatsFromQ(word, q, state) ==
  IF q <= state.maxQ
  THEN collectStatsFromQ(word, q + 1, collectStatsLoop(word, q, 0, 0, 0, state))
  ELSE state

collectStatsWord(word, state) == collectStatsFromQ(word, state.minQ, state)

RECURSIVE collectStatsWords(_, _)
collectStatsWords(words, state) ==
  IF words = <<>> THEN state
  ELSE collectStatsWords(Tail(words), collectStatsWord(Head(words), state))

RECURSIVE cleanupLoop(_, _)
cleanupLoop(list, h) ==
  IF list = <<>> THEN h
  ELSE cleanupLoop(Tail(list), [h EXCEPT ![Head(list)].incremented = FALSE])

qgram_state_cleanup(state) ==
  [state EXCEPT !.qgramsHash = cleanupLoop(state.incrementedQGrams, @),
                !.incrementedQGrams = <<>>]

(* row = [isnull, s]; minQ, maxQ, threshold are read on the first call only *)
qgram_stat_transfn(state, row, minQ, maxQ, threshold) ==
  LET state1 == IF state.null
                THEN [NullState EXCEPT !.null = FALSE, !.minQ = minQ, !.maxQ = maxQ,
                                       !.threshold = threshold]
                ELSE [state EXCEPT !.totalCount = @ + 1]
  IN  IF ~row.isnull
      THEN qgram_state_cleanup(collectStatsWords(extractWords(row.s), state1))
      ELSE state1

RECURSIVE SetToSeq(_)
SetToSeq(S) ==
  IF S = {} THEN <<>>
  ELSE LET x == CHOOSE y \in S : TRUE IN <<x>> \o SetToSeq(S \ {x})

(* the final function returning the grams in the order of the hash scan *)
qgram_stat_finalfn_scanOrder(state) ==
  IF state.null THEN [isnull |-> TRUE, qgrams |-> <<>>]
  ELSE LET limitCount == (state.totalCount * state.threshold.num) \div state.threshold.den
           kept == {g \in DOMAIN state.qgramsHash : state.qgramsHash[g].count >= limitCount}
       IN  [isnull |-> FALSE, qgrams |-> SetToSeq(kept)]

qgram_stat_finalfn(state) ==
  IF state.null THEN [isnull |-> TRUE, qgrams |-> <<>>]
  ELSE LET limitCount == (state.totalCount * state.threshold.num) \div state.threshold.den
           kept == {g \in DOMAIN state.qgramsHash : state.qgramsHash[g].count >= limitCount}
       IN  [isnull |-> FALSE, qgrams |-> qsort(SetToSeq(kept))]

(***************************************************************************)
(* compute_vgram_stats: Lossy Counting over the sample rows.  The locals   *)
(* of the function are kept in a record: num_mcelem, bucket_width,         *)
(* null_cnt and the QGramStatState.                                        *)
(***************************************************************************)
bucket_width(num_mcelem) == ((num_mcelem + 10) * 1000) \div 7

(* the locals after the initialisation that precedes the loop *)
AnalyzeLocals(num_mcelem, width) ==
  [num_mcelem |-> num_mcelem, bucket_width |-> width, null_cnt |-> 0,
   state |-> [NullState EXCEPT !.null = FALSE, !.minQ = 1, !.maxQ = 3, !.bCurrent = 1]]

prune_qgrams_hashtable(qgramsHash, b_current) ==
  LET keep == {g \in DOMAIN qgramsHash :
                 ~(qgramsHash[g].count + qgramsHash[g].delta <= b_current)}
  IN  [g \in keep |-> qgramsHash[g]]

(* the loop body pruning with the bucket number it has just advanced to *)
analyzeString_pruneAfterAdvance(l, row) ==
  IF row.isnull THEN [l EXCEPT !.null_cnt = @ + 1]
  ELSE LET prevQGramCount == l.state.qgramsCount
           st == qgram_state_cleanup(collectStatsWords(extractWords(row.s), l.state))
           crossed == (st.qgramsCount \div l.bucket_width)
                        - (prevQGramCount \div l.bucket_width)
       IN  IF crossed # 0
           THEN [l EXCEPT !.state =
                   [st EXCEPT !.qgramsHash =
                                 prune_qgrams_hashtable(@, st.bCurrent + crossed),
                              !.bCurrent = @ + crossed]]
           ELSE [l EXCEPT !.state = st]

(* one iteration of the loop over the strings *)
analyzeString(l, row) ==
  IF row.isnull THEN [l EXCEPT !.null_cnt = @ + 1]
  ELSE LET prevQGramCount == l.state.qgramsCount
           st == qgram_state_cleanup(collectStatsWords(extractWords(row.s), l.state))
           crossed == (st.qgramsCount \div l.bucket_width)
                        - (prevQGramCount \div l.bucket_width)
       IN  IF crossed # 0
           THEN [l EXCEPT !.state =
                   [st EXCEPT !.qgramsHash = prune_qgrams_hashtable(@, st.bCurrent),
                              !.bCurrent = @ + crossed]]
           ELSE [l EXCEPT !.state = st]

(* strcmp of two NUL-terminated strings, k counting from 1 *)
RECURSIVE strcmpFrom(_, _, _)
strcmpFrom(a, b, k) ==
  LET c1 == IF k <= Len(a) THEN a[k] ELSE 0
      c2 == IF k <= Len(b) THEN b[k] ELSE 0
  IN  IF c1 < c2 THEN -1
      ELSE IF c1 > c2 THEN 1
      ELSE IF c1 = 0 THEN 0
      ELSE strcmpFrom(a, b, k + 1)

strcmp(a, b) == strcmpFrom(a, b, 1)

(* items are [qgram, count] *)
qgram_hash_value_compare_frequencies_desc(t1, t2) ==
  IF t2.count > t1.count THEN 1
  ELSE IF t2.count < t1.count THEN -1
  ELSE 0

(* the comparison its comment describes: first length, then bytes *)
qgram_hash_value_compare_qgrams_lengthFirst(t1, t2) ==
  IF Len(t1.qgram) < Len(t2.qgram) THEN -1
  ELSE IF Len(t1.qgram) > Len(t2.qgram) THEN 1
  ELSE strcmp(t1.qgram, t2.qgram)

qgram_hash_value_compare_qgrams(t1, t2) == strcmp(t1.qgram, t2.qgram)

RECURSIVE InsertByQGram(_, _)
InsertByQGram(sorted, x) ==
  IF sorted = <<>> THEN <<x>>
  ELSE IF qgram_hash_value_compare_qgrams(x, Head(sorted)) < 0 THEN <<x>> \o sorted
  ELSE <<Head(sorted)>> \o InsertByQGram(Tail(sorted), x)

RECURSIVE qsort_qgrams(_)
qsort_qgrams(items) ==
  IF items = <<>> THEN <<>>
  ELSE InsertByQGram(qsort_qgrams(Tail(items)), Head(items))

(* the items meeting the cutoff frequency *)
trackedItems(l) ==
  LET cutoff_freq == (9 * l.state.qgramsCount) \div l.bucket_width
      h == l.state.qgramsHash
  IN  {[qgram |-> g, count |-> h[g].count] : g \in {x \in DOMAIN h : h[x].count > cutoff_freq}}

(* what sorting by descending frequency and truncating to num_mcelem may  *)
(* keep: the order of items of equal count is the sort's choice           *)
truncations(l) ==
  LET tracked == trackedItems(l)
  IN  IF l.num_mcelem < Cardinality(tracked)
      THEN {k \in SUBSET tracked :
              /\ Cardinality(k) = l.num_mcelem
              /\ \A x \in k : \A y \in tracked \ k :
                    qgram_hash_value_compare_frequencies_desc(x, y) <= 0}
      ELSE {tracked}

MinCount(items) == CHOOSE c \in {x.count : x \in items} : \A x \in items : c <= x.count
MaxCount(items) == CHOOSE c \in {x.count : x \in items} : \A x \in items : c >= x.count

(* the statistics with minfreq left as the scan over the table set it *)
vgramStats_minfreqOfScan(l, samplerows, kept) ==
  IF l.null_cnt < samplerows
  THEN LET nonnull_cnt == samplerows - l.null_cnt
           tracked == trackedItems(l)
           truncated == l.num_mcelem < Cardinality(tracked)
           num_mcelem == IF truncated THEN l.num_mcelem ELSE Cardinality(tracked)
           minfreq == IF tracked = {} THEN l.state.qgramsCount ELSE MinCount(tracked)
           maxfreq == IF tracked = {} THEN 0 ELSE MaxCount(tracked)
           sort_table == qsort_qgrams(SetToSeq(kept))
       IN  [stats_valid |-> TRUE, nonnull_cnt |-> nonnull_cnt,
            stanullfrac |-> [num |-> l.null_cnt, den |-> samplerows],
            mcelem |-> num_mcelem > 0,
            values |-> IF num_mcelem > 0
                       THEN [i \in DOMAIN sort_table |-> sort_table[i].qgram] ELSE <<>>,
            numbers |-> IF num_mcelem > 0
                        THEN [i \in DOMAIN sort_table |->
                                [num |-> sort_table[i].count, den |-> nonnull_cnt]]
                             \o <<[num |-> minfreq, den |-> nonnull_cnt],
                                  [num |-> maxfreq, den |-> nonnull_cnt]>>
                        ELSE <<>>]
  ELSE [stats_valid |-> TRUE, nonnull_cnt |-> 0,
        stanullfrac |-> [num |-> 1, den |-> 1], mcelem |-> FALSE,
        values |-> <<>>, numbers |-> <<>>]

(* the statistics written for the kept items; a frequency is the pair     *)
(* count / nonnull_cnt                                                    *)
vgramStats(l, samplerows, kept) ==
  IF l.null_cnt < samplerows
  THEN LET nonnull_cnt == samplerows - l.null_cnt
           tracked == trackedItems(l)
           truncated == l.num_mcelem < Cardinality(tracked)
           num_mcelem == IF truncated THEN l.num_mcelem ELSE Cardinality(tracked)
           minfreq == IF truncated THEN MinCount(kept)
                      ELSE IF tracked = {} THEN l.state.qgramsCount
                      ELSE MinCount(tracked)
           maxfreq == IF tracked = {} THEN 0 ELSE MaxCount(tracked)
           sort_table == qsort_qgrams(SetToSeq(kept))
       IN  [stats_valid |-> TRUE, nonnull_cnt |-> nonnull_cnt,
            stanullfrac |-> [num |-> l.null_cnt, den |-> samplerows],
            mcelem |-> num_mcelem > 0,
            values |-> IF num_mcelem > 0
                       THEN [i \in DOMAIN sort_table |-> sort_table[i].qgram] ELSE <<>>,
            numbers |-> IF num_mcelem > 0
                        THEN [i \in DOMAIN sort_table |->
                                [num |-> sort_table[i].count, den |-> nonnull_cnt]]
                             \o <<[num |-> minfreq, den |-> nonnull_cnt],
                                  [num |-> maxfreq, den |-> nonnull_cnt]>>
                        ELSE <<>>]
  ELSE [stats_valid |-> TRUE, nonnull_cnt |-> 0,
        stanullfrac |-> [num |-> 1, den |-> 1], mcelem |-> FALSE,
        values |-> <<>>, numbers |-> <<>>]

(***************************************************************************)
(* vgram_likesel reads the MCELEM slot into a lookup array and searches it *)
(* with bsearch.                                                           *)
(***************************************************************************)
MAX_STAT_Q == 3

qgram_key_cmp_internal(key1, key2) ==
  LET cmp == memcmpFrom(key1, key2, 1, Min(Len(key1), Len(key2)))
  IN  IF cmp # 0 THEN cmp
      ELSE IF Len(key1) < Len(key2) THEN -1
      ELSE IF Len(key1) = Len(key2) THEN 0
      ELSE 1

(* the StatData built from the slot *)
loadStatData(stats) ==
  [lookup |-> [i \in DOMAIN stats.values |->
                 [key |-> stats.values[i], frequency |-> stats.numbers[i]]],
   lookupLen |-> Len(stats.values),
   minfreq |-> stats.numbers[Len(stats.numbers) - 1]]

(* bsearch over base[l .. u - 1], indices counting from 0; 0 - 1 is NULL *)
RECURSIVE bsearch(_, _, _, _)
bsearch(key, base, l, u) ==
  IF l < u
  THEN LET idx == (l + u) \div 2
           comparison == qgram_key_cmp_internal(key, base[idx + 1].key)
       IN  IF comparison < 0 THEN bsearch(key, base, l, idx)
           ELSE IF comparison > 0 THEN bsearch(key, base, idx + 1, u)
           ELSE idx
  ELSE -1

lookup_qgram(statData, qgram) ==
  LET searchres == bsearch(qgram, statData.lookup, 0, statData.lookupLen)
  IN  [found |-> searchres # -1,
       frequency |-> IF searchres # -1 THEN statData.lookup[searchres + 1].frequency
                     ELSE [num |-> statData.minfreq.num, den |-> 2 * statData.minfreq.den]]

(***************************************************************************)
(* vgram_likesel.  A float is kept as the fraction num / den, den > 0, so  *)
(* products and quotients are exact.                                       *)
(***************************************************************************)
RECURSIVE GCD(_, _)
GCD(a, b) == IF b = 0 THEN a ELSE GCD(b, a % b)

(* n / d in lowest terms, n >= 0, d >= 0 *)
Frac(n, d) ==
  LET g == GCD(n, d)
  IN  IF g = 0 THEN [num |-> n, den |-> d] ELSE [num |-> n \div g, den |-> d \div g]

FracMul(a, b) ==
  LET x == Frac(a.num, b.den)
      y == Frac(b.num, a.den)
  IN  Frac(x.num * y.num, x.den * y.den)

FracDiv(a, b) == FracMul(a, [num |-> b.den, den |-> b.num])
FracLess(a, b) == a.num * b.den < b.num * a.den
FracEq(a, b) == a.num * b.den = b.num * a.den

DEFAULT_LIKE_SEL == Frac(5, 100)

CLAMP_PROBABILITY(p) ==
  IF FracLess(p, Frac(0, 1)) THEN Frac(0, 1)
  ELSE IF FracLess(Frac(1, 1), p) THEN Frac(1, 1)
  ELSE p

(* the inner while loop looking for a denominator: pp moves right until   *)
(* s[pp .. q) is found or pp reaches q                                    *)
RECURSIVE denominatorSearch(_, _, _, _)
denominatorSearch(statData, s, pp, q) ==
  LET r == lookup_qgram(statData, Bytes(s, pp, q))
  IN  IF r.found THEN [pp |-> pp, denominator |-> r.frequency]
      ELSE IF pp + 1 >= q THEN [pp |-> pp + 1, denominator |-> Frac(1, 1)]
      ELSE denominatorSearch(statData, s, pp + 1, q)

(* the outer while loop of estimate_like_fragment_sel *)
RECURSIVE fragmentLoop(_, _, _, _, _)
fragmentLoop(statData, s, p, q, result) ==
  IF q < Len(s)
  THEN LET p1 == p + 1
           d == denominatorSearch(statData, s, p1, q)
           q1 == q + 1
           numerator == lookup_qgram(statData, Bytes(s, d.pp, q1)).frequency
       IN  fragmentLoop(statData, s, p1, q1,
                        FracMul(result, FracDiv(numerator, d.denominator)))
  ELSE result

estimate_like_fragment_sel(statData, s) ==
  IF Len(s) <= MAX_STAT_Q
  THEN lookup_qgram(statData, s).frequency
  ELSE fragmentLoop(statData, s, 0, MAX_STAT_Q,
                    lookup_qgram(statData, Bytes(s, 0, MAX_STAT_Q)).frequency)

(* the loop of estimate_like_sel: buf2 is the lowered fragment, buf is    *)
(* what is handed to estimate_like_fragment_sel                           *)
RECURSIVE estimateLikeSelFrom(_, _, _, _)
estimateLikeSelFrom(statData, s, eword, result) ==
  LET part == get_wildcard_part(s, eword)
  IN  IF part.null THEN result
      ELSE LET buf == part.buf
               buf2 == str_tolower(buf)
           IN  estimateLikeSelFrom(statData, s, part.endword,
                  FracMul(result, estimate_like_fragment_sel(statData, buf)))

estimate_like_sel(statData, s) == estimateLikeSelFrom(statData, s, 0, Frac(1, 1))

(* vgram_likesel leaving the null fraction out *)
vgram_likesel_nullsIgnored(stats, other) ==
  IF other.kind # "const" THEN DEFAULT_LIKE_SEL
  ELSE IF other.constisnull THEN Frac(0, 1)
  ELSE IF ~stats.mcelem \/ Len(stats.numbers) # Len(stats.values) + 2
  THEN DEFAULT_LIKE_SEL
  ELSE CLAMP_PROBABILITY(estimate_like_sel(loadStatData(stats), other.pattern))

(* other: the right-hand side of the operator: not a constant, a NULL     *)
(* constant, or a text constant                                           *)
vgram_likesel(stats, other) ==
  IF other.kind # "const" THEN DEFAULT_LIKE_SEL
  ELSE IF other.constisnull THEN Frac(0, 1)
  ELSE IF ~stats.mcelem \/ Len(stats.numbers) # Len(stats.values) + 2
  THEN DEFAULT_LIKE_SEL
  ELSE LET statData == loadStatData(stats)
           selec == estimate_like_sel(statData, other.pattern)
           nonnull == Frac(stats.stanullfrac.den - stats.stanullfrac.num,
                           stats.stanullfrac.den)
       IN  CLAMP_PROBABILITY(FracMul(selec, nonnull))

(* compute_vgram_stats over a whole sample *)
RECURSIVE analyzeRows(_, _)
analyzeRows(l, rows) ==
  IF rows = <<>> THEN l ELSE analyzeRows(analyzeString(l, Head(rows)), Tail(rows))

(***************************************************************************)
(* State.                                                                  *)
(*   index : the opclass options of the GIN index (status none/built/      *)
(*           failed), with the elements of the vgrams array they were      *)
(*           built from, in sorted order                                   *)
(*   call  : the last SQL-level or GIN callback invocation and its result  *)
(*   agg   : the transition state of a running qgram_stat aggregate         *)
(*   docs  : the rows fed to that aggregate so far (history)               *)
(*   result: what qgram_stat returned                                      *)
(*   analyze: a run of compute_vgram_stats: its locals, the sample rows    *)
(*           fetched so far and the statistics it wrote                    *)
(*   est: the statistics of a column as ANALYZE left them, and what        *)
(*           vgram_likesel answered                                        *)
(***************************************************************************)
VARIABLES index, call, agg, docs, result, analyze, est

vars == <<index, call, agg, docs, result, analyze, est>>
indexVars == <<index, call>>
aggVars == <<agg, docs, result>>
analyzeVars == <<analyze>>
estVars == <<est>>

NoIndex == [status |-> "none", minQ |-> DefaultQ, maxQ |-> DefaultQ, size |-> 0,
            mem |-> <<>>, vgrams |-> <<>>]
NoCall == [op |-> "none"]

(* values tried for the minq and maxq options, and for get_vgrams *)
QValues == {0, 1, 2, 11}
QArgs == {1, 2, 4}
(* what the unwritten bytes of a palloc'ed block may hold *)
FillBytes == {0, 98, 127}
Strategies == {LikeStrategyNumber, ILikeStrategyNumber, 1}
(* queries: every pattern under LIKE and ILIKE, two under a strategy the *)
(* opclass does not have                                                  *)
Queries == (Patterns \X {LikeStrategyNumber, ILikeStrategyNumber}) \cup
           ({<<>>, <<97, 97>>} \X {1})

CheckArrays == UNION {[1..n -> BOOLEAN] : n \in 0..MaxKeys}
TriCheckArrays == UNION {[1..n -> {GIN_FALSE, GIN_TRUE, GIN_MAYBE}] : n \in 0..MaxKeys}

NoResult == [status |-> "none", qgrams |-> <<>>]

NoAnalyze == [phase |-> "none"]

NoEst == [phase |-> "none"]

InitAll ==
  /\ index = NoIndex
  /\ call = NoCall
  /\ agg = NullState
  /\ docs = <<>>
  /\ result = NoResult
  /\ analyze = NoAnalyze
  /\ est = NoEst

InitIndex == InitAll

(* CREATE INDEX ... USING gin (s vgram_gin_ops (minq=, maxq=, vgrams=)) *)
CreateIndex ==
  /\ index.status = "none"
  /\ call.op = "none"
  /\ \E minQ \in QValues, maxQ \in QValues, vgrams \in VGramArrays :
       LET o == vgram_gin_options(minQ, maxQ, vgrams)
       IN  index' = [status |-> IF o.error THEN "failed" ELSE "built",
                     minQ |-> o.minQ, maxQ |-> o.maxQ, size |-> o.size,
                     mem |-> o.mem, vgrams |-> qsort(vgrams)]
  /\ UNCHANGED <<call, aggVars, analyzeVars, estVars>>

ExtractValue ==
  /\ index.status = "built"
  /\ call.op = "none"
  /\ \E s \in Texts :
       LET emitted == extractVGrams(s, index)
       IN  call' = [op |-> "extract_value", s |-> s, emitted |-> emitted,
                    entries |-> entries_unique(emitted)]
  /\ UNCHANGED <<index, aggVars, analyzeVars, estVars>>

ExtractQuery ==
  /\ index.status = "built"
  /\ call.op = "none"
  /\ \E query \in Queries :
       LET val == query[1]
           strategy == query[2]
           q == vgram_gin_extract_query(val, strategy, GIN_SEARCH_MODE_DEFAULT, index)
       IN  call' = [op |-> "extract_query", val |-> val, strategy |-> strategy,
                    error |-> q.error, emitted |-> q.emitted,
                    entries |-> q.entries, searchMode |-> q.searchMode]
  /\ UNCHANGED <<index, aggVars, analyzeVars, estVars>>

Consistent ==
  /\ index.status = "built"
  /\ call.op = "none"
  /\ \E check \in CheckArrays, strategy \in Strategies :
       LET c == vgram_gin_consistent(check, strategy)
       IN  call' = [op |-> "consistent", check |-> check, strategy |-> strategy,
                    error |-> c.error, res |-> c.res, recheck |-> c.recheck]
  /\ UNCHANGED <<index, aggVars, analyzeVars, estVars>>

TriConsistent ==
  /\ index.status = "built"
  /\ call.op = "none"
  /\ \E check \in TriCheckArrays, strategy \in Strategies :
       LET c == vgram_gin_triconsistent(check, strategy)
       IN  call' = [op |-> "triconsistent", check |-> check, strategy |-> strategy,
                    error |-> c.error, res |-> c.res]
  /\ UNCHANGED <<index, aggVars, analyzeVars, estVars>>

(* SELECT get_vgrams(s, minQ, maxQ, vgrams) *)
GetVGrams ==
  /\ index.status = "none"
  /\ call.op = "none"
  /\ \E s \in Texts, minQ \in QArgs, maxQ \in QArgs, vgrams \in VGramArrays,
        fill \in FillBytes :
       /\ minQ <= maxQ
       /\ LET options == makeOptions(minQ, maxQ, vgrams, fill)
          IN  call' = [op |-> "get_vgrams", s |-> s, vgrams |-> qsort(vgrams),
                       options |-> options, fill |-> fill,
                       emitted |-> extractVGrams(s, options)]
  /\ UNCHANGED <<index, aggVars, analyzeVars, estVars>>

NextIndex ==
  \/ CreateIndex
  \/ ExtractValue
  \/ ExtractQuery
  \/ Consistent
  \/ TriConsistent
  \/ GetVGrams

SpecIndex == InitIndex /\ [][NextIndex]_vars

(***************************************************************************)
(* SELECT qgram_stat(s, minQ, maxQ, threshold) FROM ...: one transition    *)
(* call per row, then the final function.                                  *)
(***************************************************************************)
DocAlphabet == {65, 32}
Rows == {[isnull |-> TRUE, s |-> <<>>]} \cup
        {[isnull |-> FALSE, s |-> t] : t \in SeqsUpTo(DocAlphabet, MaxDocLen)}
AggQ == {1, 2}
Thresholds == {[num |-> 1, den |-> 2], [num |-> 1, den |-> 1]}

InitAgg == InitAll

TransFirst ==
  /\ agg.null
  /\ result.status = "none"
  /\ \E row \in Rows, minQ \in AggQ, maxQ \in AggQ, threshold \in Thresholds :
       /\ minQ <= maxQ
       /\ agg' = qgram_stat_transfn(agg, row, minQ, maxQ, threshold)
       /\ docs' = Append(docs, row)
  /\ UNCHANGED <<result, indexVars, analyzeVars, estVars>>

TransNext ==
  /\ ~agg.null
  /\ result.status = "none"
  /\ Len(docs) < MaxDocs
  /\ \E row \in Rows :
       /\ agg' = qgram_stat_transfn(agg, row, agg.minQ, agg.maxQ, agg.threshold)
       /\ docs' = Append(docs, row)
  /\ UNCHANGED <<result, indexVars, analyzeVars, estVars>>

Final ==
  /\ result.status = "none"
  /\ LET out == qgram_stat_finalfn(agg)
     IN  result' = [status |-> IF out.isnull THEN "null" ELSE "array",
                    qgrams |-> out.qgrams]
  /\ UNCHANGED <<agg, docs, indexVars, analyzeVars, estVars>>

NextAgg ==
  \/ TransFirst
  \/ TransNext
  \/ Final

SpecAgg == InitAgg /\ [][NextAgg]_vars

(***************************************************************************)
(* ANALYZE of a vgram_text column: compute_vgram_stats fetches the sample  *)
(* rows one by one and then writes the MCELEM slot.                        *)
(***************************************************************************)
(* (num_mcelem, bucket_width): the pair of attstattarget = 1, and widths   *)
(* small enough for bucket boundaries and the cutoff to fall inside the    *)
(* explored samples                                                        *)
StatParams == {[num_mcelem |-> 10, bucket_width |-> bucket_width(10)],
               [num_mcelem |-> 2, bucket_width |-> 7],
               [num_mcelem |-> 2, bucket_width |-> 8],
               [num_mcelem |-> 2, bucket_width |-> 10],
               [num_mcelem |-> 2, bucket_width |-> 200]}

(* the sample rows: NULL, and the texts that neither begin nor end with a *)
(* space                                                                   *)
SampleRows == {r \in Rows : r.isnull \/ r.s = <<>>
                               \/ (r.s[1] # 32 /\ r.s[Len(r.s)] # 32)}

(* the q-grams looked up: up to MAX_STAT_Q bytes of a lower-cased word *)
ProbeQGrams == SeqsUpTo({EMPTY_CHARACTER, 97}, MAX_STAT_Q) \ {<<>>}

NoLookup == [qgram |-> <<>>, res |-> [found |-> FALSE, frequency |-> [num |-> 0, den |-> 1]]]

InitAnalyze == InitAll

AnalyzeBegin ==
  /\ analyze.phase = "none"
  /\ \E prm \in StatParams :
       analyze' = [phase |-> "loop", rows |-> <<>>,
                   l |-> AnalyzeLocals(prm.num_mcelem, prm.bucket_width)]
  /\ UNCHANGED <<indexVars, aggVars, estVars>>

AnalyzeString ==
  /\ analyze.phase = "loop"
  /\ Len(analyze.rows) < MaxDocs
  /\ \E row \in SampleRows :
       analyze' = [analyze EXCEPT !.rows = Append(@, row),
                                  !.l = analyzeString(@, row)]
  /\ UNCHANGED <<indexVars, aggVars, estVars>>

AnalyzeEnd ==
  /\ analyze.phase = "loop"
  /\ Len(analyze.rows) > 0
  /\ \E kept \in truncations(analyze.l) :
       analyze' = [phase |-> "done", rows |-> analyze.rows, l |-> analyze.l,
                   kept |-> kept, lookup |-> NoLookup,
                   stats |-> vgramStats(analyze.l, Len(analyze.rows), kept)]
  /\ UNCHANGED <<indexVars, aggVars, estVars>>

(* the estimator looks a q-gram of a pattern up in the statistics *)
LookupQGram ==
  /\ analyze.phase = "done"
  /\ analyze.stats.mcelem
  /\ analyze.lookup = NoLookup
  /\ \E qgram \in ProbeQGrams :
       analyze' = [analyze EXCEPT !.lookup =
                     [qgram |-> qgram,
                      res |-> lookup_qgram(loadStatData(analyze.stats), qgram)]]
  /\ UNCHANGED <<indexVars, aggVars, estVars>>

NextAnalyze ==
  \/ AnalyzeBegin
  \/ AnalyzeString
  \/ AnalyzeEnd
  \/ LookupQGram

SpecAnalyze == InitAnalyze /\ [][NextAnalyze]_vars

(***************************************************************************)
(* Planning s LIKE other on a vgram_text column: ANALYZE has written the   *)
(* statistics of the column, vgram_likesel estimates from them.            *)
(***************************************************************************)
SampleSeqs == UNION {[1..n -> SampleRows] : n \in 1..MaxDocs}

SelAlphabet == {97, 65, 32, 37}
SelPatterns == SeqsUpTo(SelAlphabet, MaxPatLen)
Others == {[kind |-> "var", constisnull |-> FALSE, pattern |-> <<>>],
           [kind |-> "const", constisnull |-> TRUE, pattern |-> <<>>]} \cup
          {[kind |-> "const", constisnull |-> FALSE, pattern |-> pat] : pat \in SelPatterns}

InitEstimate == InitAll

(* ANALYZE: compute_vgram_stats over a sample, from first row to last *)
AnalyzeColumn ==
  /\ est.phase = "none"
  /\ \E rows \in SampleSeqs, prm \in StatParams :
       LET l == analyzeRows(AnalyzeLocals(prm.num_mcelem, prm.bucket_width), rows)
       IN  \E kept \in truncations(l) :
              est' = [phase |-> "analyzed", stats |-> vgramStats(l, Len(rows), kept)]
  /\ UNCHANGED <<indexVars, aggVars, analyzeVars>>

LikeSel ==
  /\ est.phase = "analyzed"
  /\ \E other \in Others :
       est' = [phase |-> "estimated", stats |-> est.stats, other |-> other,
               selec |-> vgram_likesel(est.stats, other)]
  /\ UNCHANGED <<indexVars, aggVars, analyzeVars>>

NextEstimate ==
  \/ AnalyzeColumn
  \/ LikeSel

SpecEstimate == InitEstimate /\ [][NextEstimate]_vars

(***************************************************************************)
(* Vocabulary of the properties.                                           *)
(***************************************************************************)
Range(f) == {f[i] : i \in DOMAIN f}

PrefixOf(g, e) == Len(g) <= Len(e) /\ SubSeq(e, 1, Len(g)) = g

SubstringOf(g, t) ==
  \E i \in 1..(Len(t) - Len(g) + 1) : SubSeq(t, i, i + Len(g) - 1) = g

(* the extraction calls, the options they ran under and the array the     *)
(* options were packed from                                               *)
IsExtraction == call.op \in {"extract_value", "extract_query", "get_vgrams"}
CallOptions == IF call.op = "get_vgrams" THEN call.options ELSE index
CallVGrams == IF call.op = "get_vgrams" THEN call.vgrams ELSE index.vgrams

RowMatches(s, val, strategy) ==
  IF strategy = ILikeStrategyNumber THEN vgram_text_iclike(s, val)
  ELSE vgram_text_like(s, val)

(* C1: a row that matches the LIKE/ILIKE pattern holds every V-gram the   *)
(* query extraction returned for the pattern, under the index's options.  *)
C1_SearchComplete ==
  (call.op = "extract_query" /\ ~call.error
   /\ MinQLimit <= index.minQ /\ index.minQ <= index.maxQ) =>
     \A s \in Texts :
        RowMatches(s, call.val, call.strategy) =>
           Range(call.entries) \subseteq Range(vgram_gin_extract_value(s, index))

(* the text a call extracted from, and the runs of extractable characters *)
(* of at least n characters it contains (as lowercased by extractWords)   *)
ExtractableRuns(s, n) ==
  {SubSeq(str_tolower(s), i, j) : i \in 1..Len(s), j \in 1..Len(s)} \cap
  {t \in SeqsUpTo({c \in 0..127 : isExtractable(c)} \cap Range(str_tolower(s)), Len(s)) :
     Len(t) >= n}

(* some entry of the packed table, read as the NUL-terminated string at   *)
(* its offset, starts with g                                              *)
PrefixPresent(options, g) ==
  \E i \in 0..(vgramsCount(options) - 1) :
     strncmp(options.mem, GET_VGRAM(options, i), g, Len(g)) = 0

ValidQ(options) == MinQLimit <= options.minQ /\ options.minQ <= options.maxQ

(* C2 as stated: for 1 <= minQ <= maxQ, every run of at least maxQ+1      *)
(* extractable characters of the extracted string contains one of the     *)
(* V-grams extracted from it.                                             *)

C2_CoverAsStated ==
  (call.op \in {"extract_value", "get_vgrams"} /\ ValidQ(CallOptions)) =>
     \A t \in ExtractableRuns(call.s, CallOptions.maxQ + 1) :
        \E i \in DOMAIN call.emitted : SubstringOf(call.emitted[i], t)

(* t holds maxQ consecutive characters that no entry of the packed table  *)
(* starts with                                                            *)
HasRareGram(options, t) ==
  \E i \in 1..(Len(t) - options.maxQ + 1) :
     ~PrefixPresent(options, SubSeq(t, i, i + options.maxQ - 1))

(* C2 amended: for 1 <= minQ <= maxQ, every run of at least maxQ+1        *)
(* extractable characters that contains maxQ consecutive characters which *)
(* no entry of the packed table starts with contains one of the V-grams   *)
(* extracted from the string.                                             *)
C2_CoverOfRareRuns ==
  (call.op \in {"extract_value", "get_vgrams"} /\ ValidQ(CallOptions)) =>
     \A t \in ExtractableRuns(call.s, CallOptions.maxQ + 1) :
        HasRareGram(CallOptions, t) =>
           \E i \in DOMAIN call.emitted : SubstringOf(call.emitted[i], t)

(* a run with a rare maxQ-gram next to a frequent one, covered by a gram  *)
(* longer than minQ                                                       *)
C2_Witness ==
  /\ call.op = "extract_value"
  /\ index.minQ < index.maxQ
  /\ \E t \in ExtractableRuns(call.s, index.maxQ + 1) :
        /\ HasRareGram(index, t)
        /\ PrefixPresent(index, SubSeq(t, 1, index.minQ))
        /\ \E i \in DOMAIN call.emitted :
              SubstringOf(call.emitted[i], t) /\ Len(call.emitted[i]) > index.minQ

(* every element of the array is between minQ and maxQ characters long *)
GramsInRange(options, arr) ==
  \A j \in DOMAIN arr : Len(arr[j]) >= options.minQ /\ Len(arr[j]) <= options.maxQ

(* C4: for 1 <= minQ <= maxQ and a vgrams array with every element between *)
(* minQ and maxQ characters, no gram handed to the callback by the walker  *)
(* is the leading bytes of an element of the array the options were        *)
(* packed from.                                                            *)
C4_EmittedNotPrefixPresent ==
  (IsExtraction /\ ValidQ(CallOptions) /\ GramsInRange(CallOptions, CallVGrams)) =>
     \A i \in DOMAIN call.emitted : \A j \in DOMAIN CallVGrams :
        ~PrefixOf(call.emitted[i], CallVGrams[j])

(* C5: every gram emitted by value or query extraction is between minQ    *)
(* and maxQ characters long.                                              *)
C5_LengthInRange ==
  IsExtraction =>
     \A i \in DOMAIN call.emitted :
        Len(call.emitted[i]) >= CallOptions.minQ /\ Len(call.emitted[i]) <= CallOptions.maxQ

(* query extraction grew a gram past a frequent prefix up to maxQ *)
C5_Witness ==
  /\ call.op = "extract_query"
  /\ index.minQ < index.maxQ
  /\ \E i \in DOMAIN call.emitted :
        /\ Len(call.emitted[i]) = index.maxQ
        /\ PrefixPresent(index, SubSeq(call.emitted[i], 1, index.minQ))

(* C6: an index exists only for options with 1 <= minQ <= maxQ <= 10.     *)
C6_OptionsValidated ==
  (index.status = "built") =>
     (MinQLimit <= index.minQ /\ index.minQ <= index.maxQ /\ index.maxQ <= MaxQLimit)

(* C7: for 1 <= minQ <= maxQ, a packed table exists only when every       *)
(* element of the vgrams array is between minQ and maxQ characters long.  *)
C7_GramLengthsValidated ==
  (index.status = "built" /\ ValidQ(index)) => GramsInRange(index, index.vgrams)

(* C9: the consistent function always asks for a recheck and the ternary  *)
(* consistent function never answers GIN_TRUE.                            *)
C9_RecheckAlways ==
  /\ (call.op = "consistent" => call.recheck)
  /\ (call.op = "triconsistent" => call.res # GIN_TRUE)

(* every key is known to be present and the answer is still only MAYBE *)
C9_Witness ==
  /\ call.op = "triconsistent"
  /\ ~call.error
  /\ Len(call.check) = MaxKeys
  /\ \A i \in DOMAIN call.check : call.check[i] = GIN_TRUE
  /\ call.res = GIN_MAYBE

(* C10: the query callback asks for a full index scan exactly when the    *)
(* pattern yields no V-gram, and otherwise leaves the search mode alone.  *)
C10_FullScanIffNoGram ==
  (call.op = "extract_query" /\ ~call.error) =>
     /\ (call.searchMode = GIN_SEARCH_MODE_ALL) <=> (Range(call.emitted) = {})
     /\ (Range(call.emitted) # {} =>
           call.searchMode = GIN_SEARCH_MODE_DEFAULT /\ Range(call.entries) = Range(call.emitted))

(* a pattern with a literal fragment whose grams are all frequent *)
C10_Witness ==
  /\ call.op = "extract_query"
  /\ ~call.error
  /\ call.searchMode = GIN_SEARCH_MODE_ALL
  /\ index.minQ <= index.maxQ
  /\ \E i \in DOMAIN call.val : \E j \in DOMAIN call.val :
        i < j /\ isExtractable(call.val[i]) /\ isExtractable(call.val[j])

(* the q-grams, minQ <= q <= maxQ, of the sentinel-padded words of a row *)
GramsOf(row, minQ, maxQ) ==
  IF row.isnull THEN {}
  ELSE LET words == extractWords(row.s)
       IN  UNION {{SubSeq(words[w], i, i + q - 1) : i \in 1..(Len(words[w]) - q + 1)} :
                     w \in DOMAIN words, q \in minQ..maxQ}

(* the number of rows fed so far that contain g *)
DocFreq(g) ==
  Cardinality({i \in DOMAIN docs : g \in GramsOf(docs[i], agg.minQ, agg.maxQ)})

SeenGrams == UNION {GramsOf(docs[i], agg.minQ, agg.maxQ) : i \in DOMAIN docs}

(* C3: the aggregate returns exactly the grams g seen in the rows with    *)
(* docfreq(g) >= floor(threshold * |docs|), |docs| counting every row fed *)
(* to it, the first one and the NULL ones included.                       *)
C3_ThresholdOverAllRows ==
  (result.status = "array") =>
     Range(result.qgrams) =
        {g \in SeenGrams :
           DocFreq(g) >= (agg.threshold.num * Len(docs)) \div agg.threshold.den}

(* C8: after each row the hash table holds the grams of the rows so far,  *)
(* each with the number of rows containing it as its count and with its   *)
(* incremented flag false, and the touched list is empty.                 *)
C8_CountIsDocFreq ==
  (~agg.null) =>
     /\ DOMAIN agg.qgramsHash = SeenGrams
     /\ \A g \in DOMAIN agg.qgramsHash :
           agg.qgramsHash[g].count = DocFreq(g) /\ ~agg.qgramsHash[g].incremented
     /\ agg.incrementedQGrams = <<>>

(* a gram occurs twice in the last row and is counted once for it *)
C8_Witness ==
  /\ ~agg.null
  /\ Len(docs) >= 2
  /\ \E g \in SeenGrams :
        /\ \E w \in DOMAIN extractWords(docs[Len(docs)].s) :
              LET word == extractWords(docs[Len(docs)].s)[w]
              IN  \E i \in DOMAIN word, j \in DOMAIN word :
                     i < j /\ j + Len(g) - 1 <= Len(word)
                     /\ SubSeq(word, i, i + Len(g) - 1) = g
                     /\ SubSeq(word, j, j + Len(g) - 1) = g
        /\ agg.qgramsHash[g].count = DocFreq(g)
        /\ DocFreq(g) >= 2

(* a sorts strictly before b: at the first differing byte a's is smaller, *)
(* or a is a proper prefix of b                                           *)
ByteLess(a, b) ==
  \/ \E k \in 1..Min(Len(a), Len(b)) :
        a[k] < b[k] /\ \A m \in 1..(k - 1) : a[m] = b[m]
  \/ Len(a) < Len(b) /\ \A m \in 1..Len(a) : a[m] = b[m]

StrictlyAscending(arr) ==
  \A i \in DOMAIN arr : \A j \in DOMAIN arr : i < j => ByteLess(arr[i], arr[j])

(* C11: the array returned by the value callback and by the query         *)
(* callback is strictly ascending in byte order, a proper prefix first,   *)
(* and holds exactly the distinct grams the walker emitted.               *)
C11_EntriesSortedDistinct ==
  (call.op \in {"extract_value", "extract_query"}) =>
     /\ StrictlyAscending(call.entries)
     /\ Range(call.entries) = Range(call.emitted)

(* the walker emitted a gram twice and out of order *)
C11_Witness ==
  /\ call.op = "extract_value"
  /\ Len(call.entries) >= 2
  /\ Len(call.entries) < Len(call.emitted)
  /\ ~StrictlyAscending(call.emitted)

(* the NUL-terminated string that starts at offset at *)
RECURSIVE ReadCString(_, _)
ReadCString(mem, at) ==
  IF at \notin DOMAIN mem \/ mem[at] = 0 THEN <<>>
  ELSE <<mem[at]>> \o ReadCString(mem, at + 1)

(* C12: whatever the destination held before, gram i of a packed table,   *)
(* read through GET_VGRAM as a NUL-terminated string, is the i-th element *)
(* of the array in byte-sorted order.                                     *)
C12_PackedRoundTrip ==
  (call.op = "get_vgrams") =>
     /\ vgramsCount(call.options) = Len(call.vgrams)
     /\ \A i \in 0..(Len(call.vgrams) - 1) :
           ReadCString(call.options.mem, GET_VGRAM(call.options, i)) = call.vgrams[i + 1]

(* the number of sample rows fetched so far that contain g, for the q of  *)
(* the analyzer's state                                                   *)
SampleFreq(g) ==
  Cardinality({i \in DOMAIN analyze.rows :
                 g \in GramsOf(analyze.rows[i], analyze.l.state.minQ, analyze.l.state.maxQ)})

(* C13: Lossy-Counting error bound.  After any sequence of sample rows,   *)
(* for every gram kept in the table, the number of non-null rows that     *)
(* contain it exceeds the stored count by at most qgramsCount / w.        *)
C13_LossyCountingBound ==
  (analyze.phase # "none") =>
     \A g \in DOMAIN analyze.l.state.qgramsHash :
        SampleFreq(g) - analyze.l.state.qgramsHash[g].count
           <= analyze.l.state.qgramsCount \div analyze.l.bucket_width

(* a gram was pruned at a bucket boundary and entered again by a later    *)
(* row: the table undercounts it                                          *)
C13_Witness ==
  /\ analyze.phase = "loop"
  /\ analyze.l.state.bCurrent > 1
  /\ \E g \in DOMAIN analyze.l.state.qgramsHash :
        /\ analyze.l.state.qgramsHash[g].count < SampleFreq(g)
        /\ analyze.l.state.qgramsHash[g].delta > 0

NonNullRows == Cardinality({i \in DOMAIN analyze.rows : ~analyze.rows[i].isnull})

(* C14: every frequency of the MCELEM slot is the table's count of its    *)
(* gram over the number of non-null rows and lies in [0,1], and the two   *)
(* trailing numbers are the least and the greatest of these frequencies.  *)
C14_McelemFrequencies ==
  (analyze.phase = "done" /\ analyze.stats.mcelem) =>
     LET values == analyze.stats.values
         numbers == analyze.stats.numbers
         n == Len(values)
     IN  /\ n > 0 /\ Len(numbers) = n + 2
         /\ \A i \in 1..(n + 2) : numbers[i].den = NonNullRows
         /\ \A i \in 1..n :
               /\ values[i] \in DOMAIN analyze.l.state.qgramsHash
               /\ numbers[i].num = analyze.l.state.qgramsHash[values[i]].count
               /\ 0 <= numbers[i].num /\ numbers[i].num <= numbers[i].den
         /\ \E i \in 1..n : numbers[n + 1].num = numbers[i].num
         /\ \A i \in 1..n : numbers[n + 1].num <= numbers[i].num
         /\ \E i \in 1..n : numbers[n + 2].num = numbers[i].num
         /\ \A i \in 1..n : numbers[n + 2].num >= numbers[i].num

(* a NULL row in the sample, and the truncation drops grams whose count   *)
(* meets the cutoff but is below every kept count                         *)
C14_Witness ==
  /\ analyze.phase = "done" /\ analyze.stats.mcelem
  /\ analyze.l.null_cnt > 0
  /\ \E x \in trackedItems(analyze.l) :
        /\ x \notin analyze.kept
        /\ \A y \in analyze.kept : x.count < y.count

RECURSIVE PatternChars(_, _)
PatternChars(p, i) ==
  IF i > Len(p) THEN <<>>
  ELSE IF ISESCAPECHAR(p[i])
  THEN IF i + 1 > Len(p) THEN <<>>
       ELSE <<[class |-> IF isExtractable(p[i + 1]) THEN "x" ELSE "s",
               c |-> p[i + 1], esc |-> TRUE]>> \o PatternChars(p, i + 2)
  ELSE <<[class |-> IF ISWILDCARDCHAR(p[i]) THEN "w"
                    ELSE IF isExtractable(p[i]) THEN "x" ELSE "s",
          c |-> p[i], esc |-> FALSE]>> \o PatternChars(p, i + 1)

EscapesMeta(p) ==
  \E k \in DOMAIN PatternChars(p, 1) :
     PatternChars(p, 1)[k].esc /\ ISWILDCARDCHAR(PatternChars(p, 1)[k].c)

(* the fragments by the sentinel rule: the maximal runs of extractable    *)
(* characters, with $ in front at the start of the pattern or after an    *)
(* "s" character, and $ behind at the end of the pattern or before one    *)
RECURSIVE SentinelParts(_, _)
SentinelParts(chars, k) ==
  IF k > Len(chars) THEN <<>>
  ELSE IF chars[k].class # "x" THEN SentinelParts(chars, k + 1)
  ELSE LET e == CHOOSE j \in k..Len(chars) :
                  /\ \A m \in k..j : chars[m].class = "x"
                  /\ (j = Len(chars) \/ chars[j + 1].class # "x")
           lead == IF k = 1 \/ chars[k - 1].class = "s"
                   THEN <<EMPTY_CHARACTER>> ELSE <<>>
           trail == IF e = Len(chars) \/ chars[e + 1].class = "s"
                    THEN <<EMPTY_CHARACTER>> ELSE <<>>
       IN  <<lead \o [m \in 1..(e - k + 1) |-> chars[k + m - 1].c] \o trail>>
              \o SentinelParts(chars, e + 1)

(* C16: the fragments get_wildcard_part returns over the successive calls *)
(* of a query extraction carry a leading $ exactly at the start of the    *)
(* pattern or after a non-wildcard non-extractable character, and a       *)
(* trailing $ exactly at its end or before such a character.  Stated for  *)
(* the patterns that escape no meta-character.                            *)
C16_SentinelRule ==
  (call.op = "extract_query" /\ ~call.error /\ ~EscapesMeta(call.val)) =>
     wildcardParts(call.val, 0) = SentinelParts(PatternChars(call.val, 1), 1)

(* the characters of a pattern with every escaped meta-character read as *)
(* an extractable one                                                     *)
EscapedMetaExtractable(chars) ==
  [k \in DOMAIN chars |->
     IF chars[k].esc /\ ISWILDCARDCHAR(chars[k].c)
     THEN [chars[k] EXCEPT !.class = "x"] ELSE chars[k]]

HasWildcard(p) == \E k \in DOMAIN PatternChars(p, 1) : PatternChars(p, 1)[k].class = "w"

(* C17: an escaped % or _ is a literal extractable byte for the           *)
(* tokenizer: it is copied into the fragment it stands in and does not    *)
(* end it.  Stated for the patterns that hold no wildcard.                *)
C17_EscapedMetaCopied ==
  (call.op = "extract_query" /\ ~call.error
     /\ EscapesMeta(call.val) /\ ~HasWildcard(call.val)) =>
     wildcardParts(call.val, 0)
        = SentinelParts(EscapedMetaExtractable(PatternChars(call.val, 1)), 1)

(* the pattern ends with an escape character that escapes nothing *)
RECURSIVE EndsInEscape(_, _)
EndsInEscape(p, i) ==
  IF i > Len(p) THEN FALSE
  ELSE IF ISESCAPECHAR(p[i])
  THEN IF i = Len(p) THEN TRUE ELSE EndsInEscape(p, i + 2)
  ELSE EndsInEscape(p, i + 1)

(* C18: a pattern ending in an unterminated escape raises no error, and   *)
(* its query extraction returns what the pattern without that last        *)
(* escape character returns: the V-grams of the fragments before it.      *)
C18_OpenEscapeIgnored ==
  (call.op = "extract_query" /\ call.strategy \in {LikeStrategyNumber, ILikeStrategyNumber}
     /\ EndsInEscape(call.val, 1)) =>
     LET before == SubSeq(call.val, 1, Len(call.val) - 1)
         q == vgram_gin_extract_query(before, call.strategy, GIN_SEARCH_MODE_DEFAULT, index)
     IN  /\ ~call.error
         /\ wildcardParts(call.val, 0) = wildcardParts(before, 0)
         /\ call.emitted = q.emitted
         /\ call.entries = q.entries
         /\ call.searchMode = q.searchMode

(* a fragment stands right before the unterminated escape and yields grams *)
C18_Witness ==
  /\ call.op = "extract_query" /\ ~call.error
  /\ EndsInEscape(call.val, 1)
  /\ Len(call.val) >= 2 /\ isExtractable(call.val[Len(call.val) - 1])
  /\ Len(call.entries) >= 2

(* C19: the array the final function returns is strictly ascending in    *)
(* byte order, a gram that is a proper prefix of another coming before    *)
(* it, and so holds no gram twice.                                        *)
C19_ResultSortedDistinct ==
  (result.status = "array") => StrictlyAscending(result.qgrams)

(* the array holds a gram right before one it is a proper prefix of, and  *)
(* a longer gram before a shorter one                                     *)
C19_Witness ==
  /\ result.status = "array"
  /\ \E i \in DOMAIN result.qgrams : \E j \in DOMAIN result.qgrams :
        /\ j = i + 1
        /\ Len(result.qgrams[i]) < Len(result.qgrams[j])
        /\ PrefixOf(result.qgrams[i], result.qgrams[j])
  /\ \E i \in DOMAIN result.qgrams : \E j \in DOMAIN result.qgrams :
        i < j /\ Len(result.qgrams[i]) > Len(result.qgrams[j])

(* C20: finalizing the aggregate when no row was fed to it, the state     *)
(* being absent, returns an empty array.                                  *)
C20_NoRowsEmptyArray ==
  (result.status # "none" /\ docs = <<>>) =>
     (result.status = "array" /\ result.qgrams = <<>>)

(* the arrangements of an array without repeated elements *)
Arrangements(arr) ==
  {f \in [DOMAIN arr -> Range(arr)] : Range(f) = Range(arr)}

(* C21: the sorted unique V-grams extracted from a string are the same    *)
(* for every arrangement of the vgrams array the options are packed from. *)
C21_ArrayOrderIrrelevant ==
  /\ (call.op = "extract_value") =>
        \A perm \in Arrangements(index.vgrams) :
           LET o == vgram_gin_options(index.minQ, index.maxQ, perm)
           IN  vgram_gin_extract_value(call.s, o) = call.entries
  /\ (call.op = "get_vgrams") =>
        \A perm \in Arrangements(call.vgrams) :
           entries_unique(get_vgrams(call.s, call.options.minQ, call.options.maxQ,
                                     perm, call.fill))
              = entries_unique(call.emitted)

(* the table holds at least two grams, given in descending order, and one *)
(* of them changes what is extracted                                      *)
C21_Witness ==
  /\ call.op = "extract_value"
  /\ Len(index.vgrams) >= 2
  /\ call.entries # vgram_gin_extract_value(call.s,
                        vgram_gin_options(index.minQ, index.maxQ, <<>>))
  /\ call.entries # <<>>

(* the positions at which a maximal run of extractable characters of s   *)
(* begins, and the position at which the run beginning at i ends          *)
RunStarts(s) ==
  {i \in DOMAIN s : isExtractable(s[i]) /\ (i = 1 \/ ~isExtractable(s[i - 1]))}

RunEnd(s, i) ==
  CHOOSE j \in i..Len(s) :
     /\ \A m \in i..j : isExtractable(s[m])
     /\ (j = Len(s) \/ ~isExtractable(s[j + 1]))

NthRunStart(s, k) ==
  CHOOSE i \in RunStarts(s) : Cardinality({x \in RunStarts(s) : x < i}) = k - 1

(* C22: extractWords calls back once per maximal run of extractable       *)
(* characters, in input order; each buffer begins and ends with $, is at  *)
(* least 2 long, holds no $ in between, and holds between the sentinels   *)
(* the lowercased bytes of its run.  No extractable character, no call.   *)
C22_WordBuffers ==
  (call.op \in {"extract_value", "get_vgrams"}) =>
     LET words == extractWords(call.s) IN
     /\ Len(words) = Cardinality(RunStarts(call.s))
     /\ \A k \in DOMAIN words :
           LET buf == words[k]
               i == NthRunStart(call.s, k)
               j == RunEnd(call.s, i)
           IN  /\ Len(buf) >= 2
               /\ buf[1] = EMPTY_CHARACTER /\ buf[Len(buf)] = EMPTY_CHARACTER
               /\ \A m \in 2..(Len(buf) - 1) : buf[m] # EMPTY_CHARACTER
               /\ Len(buf) = (j - i + 1) + 2
               /\ \A m \in 2..(Len(buf) - 1) :
                     LET c == call.s[i + m - 2]
                     IN  buf[m] = IF c \in 65..90 THEN c + 32 ELSE c

(* two runs parted by a space, an upper-case letter in one of them *)
C22_Witness ==
  /\ call.op = "extract_value"
  /\ Len(extractWords(call.s)) = 2
  /\ \E m \in DOMAIN call.s : call.s[m] \in 65..90

RECURSIVE FracProduct(_)
FracProduct(fs) == IF fs = <<>> THEN Frac(1, 1) ELSE FracMul(Head(fs), FracProduct(Tail(fs)))

EstimatedFromSlot ==
  /\ est.phase = "estimated"
  /\ est.other.kind = "const" /\ ~est.other.constisnull
  /\ est.stats.mcelem

ComputedWidth ==
  /\ analyze.phase # "none"
  /\ analyze.l.bucket_width = bucket_width(analyze.l.num_mcelem)

(* C24: the bucket width is the least integer w with                      *)
(* 7 * w >= (K + 10) * 1000, K the target number of MCELEM entries.       *)
C24_BucketWidthCeiling ==
  ComputedWidth =>
     /\ 7 * analyze.l.bucket_width >= (analyze.l.num_mcelem + 10) * 1000
     /\ 7 * (analyze.l.bucket_width - 1) < (analyze.l.num_mcelem + 10) * 1000

(* the contiguous sub-grams of g other than g *)
ProperSubGrams(g) ==
  {SubSeq(g, i, j) : i \in 1..Len(g), j \in 1..Len(g)} \ {g, <<>>}

SubGramClosed(options) ==
  \A i \in 0..(vgramsCount(options) - 1) :
     \A t \in ProperSubGrams(ReadCString(options.mem, GET_VGRAM(options, i))) :
        PrefixPresent(options, t)

C26_ResultArrayNotOverrun ==
  (call.op = "get_vgrams" /\ ValidQ(call.options)) =>
     Len(call.emitted) <= vgramsCapacity(call.s, call.options.minQ, call.options.maxQ)

(* C27: vgrams_fill stays inside a destination of exactly the size its
   sizing pass returned: every byte it writes has an index below that size,
   so the first byte after the block (index size) still holds what it held
   before the fill. *)
C27_FillStaysInsideBlock ==
  (call.op = "get_vgrams") =>
     call.options.mem[call.options.size] = call.fill

(* the number of completed buckets after the rows analysed so far *)
CompletedBuckets == analyze.l.state.qgramsCount \div analyze.l.bucket_width

(* C28: pruning keeps pace with the bucket boundaries: after each sample
   row, bCurrent is one more than the number of completed buckets and the
   table holds no entry with count + delta <= bCurrent - 1, also when one
   document crosses more than one boundary. *)
C28_PrunedToCurrentBucket ==
  (analyze.phase = "loop") =>
     /\ analyze.l.state.bCurrent = 1 + CompletedBuckets
     /\ \A g \in DOMAIN analyze.l.state.qgramsHash :
           analyze.l.state.qgramsHash[g].count + analyze.l.state.qgramsHash[g].delta
              > analyze.l.state.bCurrent - 1

(* C29: the estimator evaluates every fragment in its lowercased form, so
   two patterns that differ only in the case of ASCII letters get the same
   estimate from estimate_like_sel. *)
C29_EstimateIgnoresCase ==
  EstimatedFromSlot =>
     \A pattern \in SelPatterns :
        (str_tolower(pattern) = str_tolower(est.other.pattern))
           => FracEq(estimate_like_sel(loadStatData(est.stats), pattern),
                     estimate_like_sel(loadStatData(est.stats), est.other.pattern))

(* the contiguous grams of exactly q characters of a word, left to right *)
FixedGrams(word, q) ==
  [i \in 1..(IF Len(word) >= q THEN Len(word) - q + 1 ELSE 0) |->
     SubSeq(word, i, i + q - 1)]

(* C30: with an empty FGT the walker emits, for every sentinel-padded word
   of n characters, exactly its n - minQ + 1 grams of minQ characters, once
   each and from left to right, and nothing when n < minQ. *)
C30_EmptyTableFixedGrams ==
  (call.op \in {"extract_value", "get_vgrams"} /\ ValidQ(CallOptions)
     /\ vgramsCount(CallOptions) = 0) =>
     LET words == extractWords(call.s)
     IN  call.emitted =
           Concat([i \in DOMAIN words |-> FixedGrams(words[i], CallOptions.minQ)])

(* an empty table, maxQ above minQ, and a text that holds several grams   *)
C30_Witness ==
  /\ call.op \in {"extract_value", "get_vgrams"} /\ ValidQ(CallOptions)
  /\ vgramsCount(CallOptions) = 0
  /\ CallOptions.maxQ > CallOptions.minQ
  /\ Len(call.emitted) >= 2

====
